---- MODULE Spec2Model ----
(***************************************************************************)
(* Model of the map parser of fly_in (src/parser.py): InputParser with its *)
(* line loop (parse_input), the metadata parser (_parse_metadata) and the  *)
(* connection expansion (parse_connections).                               *)
(*                                                                         *)
(* Text is modelled where the code computes on it: numbers and metadata    *)
(* values are sequences of one-character strings, so int() and the regex   *)
(* class -?\d+ are computed from the characters.  Names and metadata keys  *)
(* are only compared for equality and are strings.                         *)
(***************************************************************************)
EXTENDS Integers, Sequences, FiniteSets, TLC

VARIABLES pc, parsed_lines, idx, zones, raw_connections, seen_connections,
          connections, number_of_drones, error,
          md_in, md_conn, md_out,
          rpc, im_zones, im_connections, drawn_bridges, render_error

parser_vars == <<pc, parsed_lines, idx, zones, raw_connections,
                 seen_connections, connections, number_of_drones, error>>
md_vars == <<md_in, md_conn, md_out>>
render_vars == <<rpc, im_zones, im_connections, drawn_bridges, render_error>>
vars == <<pc, parsed_lines, idx, zones, raw_connections, seen_connections,
          connections, number_of_drones, error, md_in, md_conn, md_out,
          rpc, im_zones, im_connections, drawn_bridges, render_error>>

(***************************************************************************)
(* Bounds of the model.                                                    *)
(***************************************************************************)
MaxLines == 3
MaxTokens == 3

(***************************************************************************)
(* Text helpers.                                                           *)
(***************************************************************************)
Digits == {"0", "1", "2", "3", "4", "5", "6", "7", "8", "9"}

DigitVal(c) ==
    CASE c = "0" -> 0 [] c = "1" -> 1 [] c = "2" -> 2 [] c = "3" -> 3
      [] c = "4" -> 4 [] c = "5" -> 5 [] c = "6" -> 6 [] c = "7" -> 7
      [] c = "8" -> 8 [] c = "9" -> 9

AllDigits(s) == Len(s) > 0 /\ \A k \in 1..Len(s) : s[k] \in Digits

RECURSIVE DigitsVal(_)
DigitsVal(s) ==
    IF s = <<>> THEN 0
    ELSE 10 * DigitsVal(SubSeq(s, 1, Len(s) - 1)) + DigitVal(s[Len(s)])

\* str.strip(): leading and trailing whitespace removed
RECURSIVE StripLeft(_)
StripLeft(s) == IF s # <<>> /\ Head(s) = " " THEN StripLeft(Tail(s)) ELSE s

RECURSIVE StripRight(_)
StripRight(s) ==
    IF s # <<>> /\ s[Len(s)] = " "
    THEN StripRight(SubSeq(s, 1, Len(s) - 1)) ELSE s

Strip(s) == StripRight(StripLeft(s))

\* the regex class -?\d+ of the hub pattern's coordinates
SignedDigits(s) ==
    IF s # <<>> /\ Head(s) = "-" THEN AllDigits(Tail(s)) ELSE AllDigits(s)

\* int(text): surrounding whitespace, an optional sign, then digits;
\* anything else raises ValueError
PyIntOk(s) ==
    LET t == Strip(s)
    IN  IF t # <<>> /\ Head(t) \in {"-", "+"} THEN AllDigits(Tail(t))
        ELSE AllDigits(t)

PyIntVal(s) ==
    LET t == Strip(s)
    IN  IF Head(t) = "-" THEN 0 - DigitsVal(Tail(t))
        ELSE IF Head(t) = "+" THEN DigitsVal(Tail(t))
        ELSE DigitsVal(t)

(***************************************************************************)
(* Metadata records (ZoneMetadata, ConnectionMetadata) and errors.         *)
(***************************************************************************)
NoneValue == <<"None">>
Normal == <<"n", "o", "r", "m", "a", "l">>
Blocked == <<"b", "l", "o", "c", "k", "e", "d">>
Restricted == <<"r", "e", "s", "t", "r", "i", "c", "t", "e", "d">>
Priority == <<"p", "r", "i", "o", "r", "i", "t", "y">>
ZoneTypes == {Normal, Blocked, Restricted, Priority}

AllowedMetadataHubs == {"zone", "color", "max_drones"}
AllowedMetadataConnections == {"max_link_capacity"}

DefaultMaxDrones == 1
DefaultMaxLinkCapacity == 1

\* a raised ValueError: which raise statement, and the texts its message shows
Err(kind, key, text, a, b) ==
    [kind |-> kind, key |-> key, text |-> text, a |-> a, b |-> b]
NoError == Err("none", "", <<>>, "", "")

(***************************************************************************)
(* _parse_metadata.  A fragment is the sequence of its whitespace-split    *)
(* tokens; a token is the result of token.split("="): the number of parts, *)
(* the first part (key) and the second part (value).                       *)
(***************************************************************************)
Tok(k, v) == [parts |-> 2, key |-> k, value |-> v]

\* dict(pairs): every element must have exactly two parts
DictUpdateFails(frag) == \E k \in 1..Len(frag) : frag[k].parts # 2

\* the keys of dict(pairs), in insertion order (first occurrence of a key)
RECURSIVE ParsedKeys(_)
ParsedKeys(frag) ==
    IF frag = <<>> THEN <<>>
    ELSE LET init == ParsedKeys(SubSeq(frag, 1, Len(frag) - 1))
             key == frag[Len(frag)].key
         IN  IF \E k \in 1..Len(init) : init[k] = key THEN init
             ELSE Append(init, key)

\* dict(pairs)[key]: a repeated key keeps the value of its last occurrence
ParsedValue(frag, key) ==
    LET last == CHOOSE k \in 1..Len(frag) :
                    /\ frag[k].key = key
                    /\ \A j \in (k + 1)..Len(frag) : frag[j].key # key
    IN  frag[last].value

\* as AllowedKeys, but one allowed set shared by both contexts
AllowedKeysAnyContext(is_connection) ==
    AllowedMetadataHubs \cup AllowedMetadataConnections

AllowedKeys(is_connection) ==
    IF is_connection THEN AllowedMetadataConnections ELSE AllowedMetadataHubs

PositiveIntKeys(is_connection) ==
    IF is_connection THEN {"max_link_capacity"} ELSE {"max_drones"}

\* as PositiveIntAccepted, but with "val < 0": zero is let through
PositiveIntAcceptedZero(value) == PyIntOk(value) /\ ~(PyIntVal(value) < 0)

\* int(value) succeeded and the value is accepted by "if val <= 0: raise"
PositiveIntAccepted(value) == PyIntOk(value) /\ ~(PyIntVal(value) <= 0)

\* one iteration of "for key, value in parsed.items()": the error it raises
KeyError(key, value, is_connection) ==
    IF key \notin AllowedKeys(is_connection)
    THEN Err("invalid_key", key, <<>>, "", "")
    ELSE IF key \in PositiveIntKeys(is_connection)
    THEN IF PositiveIntAccepted(value) THEN NoError
         ELSE Err("must_be_integer", key, value, "", "")
    ELSE IF key = "zone"
    THEN IF value \in ZoneTypes THEN NoError
         ELSE Err("not_a_valid_ZoneTypes", "", value, "", "")
    ELSE NoError

\* the error of the first failing iteration, NoError when none fails
LoopError(frag, is_connection) ==
    LET keys == ParsedKeys(frag)
        bad == {k \in 1..Len(keys) :
                  KeyError(keys[k], ParsedValue(frag, keys[k]), is_connection)
                      # NoError}
    IN  IF bad = {} THEN NoError
        ELSE LET first == CHOOSE k \in bad : \A j \in bad : k <= j
             IN  KeyError(keys[first], ParsedValue(frag, keys[first]),
                          is_connection)

HasKey(frag, key) == \E k \in 1..Len(frag) : frag[k].key = key

ZoneMetadata(frag) ==
    [color |-> IF HasKey(frag, "color") THEN ParsedValue(frag, "color")
               ELSE NoneValue,
     zone |-> IF HasKey(frag, "zone") THEN ParsedValue(frag, "zone")
              ELSE Normal,
     max_drones |-> IF HasKey(frag, "max_drones")
                    THEN PyIntVal(ParsedValue(frag, "max_drones"))
                    ELSE DefaultMaxDrones]

ConnectionMetadata(frag) ==
    [max_link_capacity |->
        IF HasKey(frag, "max_link_capacity")
        THEN PyIntVal(ParsedValue(frag, "max_link_capacity"))
        ELSE DefaultMaxLinkCapacity]

\* the result: ok with the record, or not ok with the ValueError raised
_parse_metadata(frag, is_connection) ==
    LET built == IF is_connection THEN ConnectionMetadata(frag)
                 ELSE ZoneMetadata(frag)
    IN  IF frag = <<>> THEN [ok |-> TRUE, meta |-> built, err |-> NoError]
        ELSE IF DictUpdateFails(frag)
        THEN [ok |-> FALSE, meta |-> <<>>,
              err |-> Err("dict_update_length", "", <<>>, "", "")]
        ELSE IF LoopError(frag, is_connection) # NoError
        THEN [ok |-> FALSE, meta |-> <<>>,
              err |-> LoopError(frag, is_connection)]
        ELSE [ok |-> TRUE, meta |-> built, err |-> NoError]

(***************************************************************************)
(* Input lines.  A line is what the loop of parse_input looks at: its      *)
(* leading text (head), the name fields the patterns capture, the texts of *)
(* the coordinates, the text after "nb_drones:" and the bracketed          *)
(* fragment (<<>> when the optional group did not match).                  *)
(***************************************************************************)
Line(head, name, name2, x, y, num, meta) ==
    [head |-> head, name |-> name, name2 |-> name2, x |-> x, y |-> y,
     num |-> num, meta |-> meta]

HubHeads == {"start_hub:", "end_hub:", "hub:"}

DroneTexts == {<<" ", "2">>, <<" ", "0">>, <<" ", "-", "1">>, <<" ", "x">>}

DroneLines == {Line("nb_drones:", "", "", <<>>, <<>>, t, <<>>) : t \in DroneTexts}

HubNames == {"a", "b"}

\* keyword, coordinates and fragment of the hub lines the model feeds in
PlainHubForms ==
    { <<"hub:", <<"0">>, <<"0">>, <<>> >>,
      <<"start_hub:", <<"1">>, <<"-", "2">>,
        <<Tok("color", <<"r">>), Tok("max_drones", <<"2">>)>> >> }

HubForms ==
    PlainHubForms \cup
    { <<"hub:", <<"0">>, <<"0">>, <<Tok("zone", Blocked)>> >>,
      <<"end_hub:", <<"2">>, <<"1">>, <<Tok("max_drones", <<"0">>)>> >> }

HubFormsOf(n) == IF n = "a" THEN HubForms ELSE PlainHubForms

HubLines ==
    UNION {{Line(f[1], n, "", f[2], f[3], <<>>, f[4]) : f \in HubFormsOf(n)} :
              n \in HubNames}

\* endpoints and fragment of the connection lines the model feeds in
ConnectionForms ==
    { <<"a", "b", <<>> >>,
      <<"a", "b", <<Tok("max_link_capacity", <<"2">>)>> >>,
      <<"b", "a", <<>> >>,
      <<"a", "a", <<>> >>,
      <<"A", "b", <<Tok("max_link_capacity", <<"2">>)>> >>,
      <<"a", "b", <<Tok("max_link_capacity", <<"0">>)>> >> }

ConnectionLines ==
    {Line("connection:", f[1], f[2], <<>>, <<>>, <<>>, f[3]) :
        f \in ConnectionForms}

\* a blank line, a comment, free text, and a hub line whose x is no number
OtherLines ==
    {Line("", "", "", <<>>, <<>>, <<>>, <<>>),
     Line("#", "", "", <<>>, <<>>, <<>>, <<>>),
     Line("route", "a", "b", <<>>, <<>>, <<>>, <<>>),
     Line("hub:", "a", "", <<"x">>, <<"0">>, <<>>, <<>>)}

Lines == DroneLines \cup HubLines \cup ConnectionLines \cup OtherLines

RECURSIVE SeqsUpTo(_, _)
SeqsUpTo(S, n) ==
    IF n = 0 THEN {<<>>}
    ELSE LET shorter == SeqsUpTo(S, n - 1)
         IN  shorter \cup {Append(q, e) : q \in {r \in shorter : Len(r) = n - 1},
                                          e \in S}

(***************************************************************************)
(* Line classification, in the order parse_input tests.                    *)
(***************************************************************************)
IsSkipped(line) == line.head = "" \/ line.head = "#"

IsDrones(line) == line.head = "nb_drones:"

\* re.match(pattern, line)
MatchesHub(line) ==
    /\ line.head \in HubHeads
    /\ line.name # ""
    /\ SignedDigits(line.x)
    /\ SignedDigits(line.y)

\* re.match(pattern_connection, line)
MatchesConnection(line) ==
    /\ line.head = "connection:"
    /\ line.name # ""
    /\ line.name2 # ""

(***************************************************************************)
(* Dictionaries.                                                           *)
(***************************************************************************)
EmptyDict == [k \in {} |-> 0]

\* as DictUpdate, but a key already present keeps its value
DictUpdateKeepExisting(d, new) ==
    [k \in DOMAIN d \cup DOMAIN new |-> IF k \in DOMAIN d THEN d[k] ELSE new[k]]

\* d.update(new): the keys of new are overwritten, the others kept
DictUpdate(d, new) ==
    [k \in DOMAIN d \cup DOMAIN new |-> IF k \in DOMAIN new THEN new[k] ELSE d[k]]

\* d[key] = value
DictSet(d, key, value) ==
    [k \in DOMAIN d \cup {key} |-> IF k = key THEN value ELSE d[k]]

\* defaultdict(dict)[name]: a missing key is inserted with an empty dict
DefaultDictGet(d, name) == IF name \in DOMAIN d THEN d ELSE DictSet(d, name, EmptyDict)

(***************************************************************************)
(* parse_connections.                                                      *)
(***************************************************************************)
\* "if hub not in self.connections: self.connections[hub] = {...}"
EnsureEntry(conns, hub) ==
    IF hub \in DOMAIN conns THEN conns
    ELSE DictSet(conns, hub, [connections |-> {}, metadata |-> EmptyDict])

\* connections[from]["connections"].add(to); ...["metadata"][to] = meta
AddHalfEdge(conns, from, to, meta) ==
    DictSet(conns, from,
            [connections |-> conns[from].connections \cup {to},
             metadata |-> DictSet(conns[from].metadata, to, meta)])

\* as AddConnection, but the half-edge from hub_two back to hub_one is lost
AddConnectionOneWay(conns, raw) ==
    LET hub_one == raw.pair[1]
        hub_two == raw.pair[2]
        c1 == EnsureEntry(conns, hub_one)
        c2 == EnsureEntry(c1, hub_two)
    IN  AddHalfEdge(c2, hub_one, hub_two, raw.meta)

\* the body of the loop for one raw connection
AddConnection(conns, raw) ==
    LET hub_one == raw.pair[1]
        hub_two == raw.pair[2]
        c1 == EnsureEntry(conns, hub_one)
        c2 == EnsureEntry(c1, hub_two)
        c3 == AddHalfEdge(c2, hub_one, hub_two, raw.meta)
    IN  AddHalfEdge(c3, hub_two, hub_one, raw.meta)

RECURSIVE ExpandFrom(_, _)
ExpandFrom(conns, raws) ==
    IF raws = <<>> THEN conns
    ELSE ExpandFrom(AddConnection(conns, Head(raws)), Tail(raws))

\* as parse_connections, but the loop starts at the second raw connection
parse_connections_skip_first(conns, raws) == ExpandFrom(conns, Tail(raws))

\* "for (hub_one, hub_two), meta in self.raw_connections"
parse_connections(conns, raws) == ExpandFrom(conns, raws)

(***************************************************************************)
(* InputParser: the state after __init__, parse_lines, and parse_input as  *)
(* one step per line of its loop followed by the step after the loop.      *)
(***************************************************************************)
NoResult == [ok |-> FALSE, meta |-> <<>>, err |-> NoError]

Init ==
    /\ pc = "new"
    /\ parsed_lines = <<>>
    /\ idx = 0
    /\ zones = EmptyDict
    /\ raw_connections = <<>>
    /\ seen_connections = {}
    /\ connections = EmptyDict
    /\ number_of_drones = 0
    /\ error = NoError
    /\ md_in = <<>>
    /\ md_conn = FALSE
    /\ md_out = NoResult
    /\ rpc = "idle"
    /\ im_zones = EmptyDict
    /\ im_connections = EmptyDict
    /\ drawn_bridges = {}
    /\ render_error = [kind |-> "none", name |-> ""]

\* parse_lines: the file's lines are stored
ParseLines ==
    /\ pc = "new"
    /\ \E lines \in SeqsUpTo(Lines, MaxLines) : parsed_lines' = lines
    /\ pc' = "loaded"
    /\ UNCHANGED <<idx, zones, raw_connections, seen_connections, connections,
                   number_of_drones, error>>
    /\ UNCHANGED md_vars
    /\ UNCHANGED render_vars

\* parse_lines: the file does not exist, FileReaderError
ParseLinesNotFound ==
    /\ pc = "new"
    /\ pc' = "read_failed"
    /\ UNCHANGED <<parsed_lines, idx, zones, raw_connections, seen_connections,
                   connections, number_of_drones, error>>
    /\ UNCHANGED md_vars
    /\ UNCHANGED render_vars

\* parse_input is entered: seen_connections = set(), the loop starts
BeginParseInput ==
    /\ pc = "loaded"
    /\ pc' = "parsing"
    /\ idx' = 1
    /\ seen_connections' = {}
    /\ UNCHANGED <<parsed_lines, zones, raw_connections, connections,
                   number_of_drones, error>>
    /\ UNCHANGED md_vars
    /\ UNCHANGED render_vars

InLoop == pc = "parsing" /\ idx <= Len(parsed_lines)

CurrentLine == parsed_lines[idx]

\* the except clause: ParsingError(str(err)) leaves parse_input
Raise(err) == pc' = "failed" /\ error' = err /\ idx' = idx

NextLine == pc' = pc /\ error' = error /\ idx' = idx + 1

\* "if not line.strip() or line.startswith('#'): continue"
SkipLine ==
    /\ InLoop
    /\ IsSkipped(CurrentLine)
    /\ NextLine
    /\ UNCHANGED <<parsed_lines, zones, raw_connections, seen_connections,
                   connections, number_of_drones>>
    /\ UNCHANGED md_vars
    /\ UNCHANGED render_vars

\* as IsNegative, but with the bound off by one: -1 is let through
IsNegativeBelowMinusOne(n) == n < 0 - 1

\* "if self.number_of_drones < 0"
IsNegative(n) == n < 0

\* the nb_drones branch
DronesLine ==
    /\ InLoop
    /\ ~IsSkipped(CurrentLine)
    /\ IsDrones(CurrentLine)
    /\ LET text == Strip(CurrentLine.num)
       IN  IF ~PyIntOk(text)
           THEN /\ Raise(Err("invalid_literal_for_int", "", text, "", ""))
                /\ number_of_drones' = number_of_drones
           ELSE /\ number_of_drones' = PyIntVal(text)
                /\ IF IsNegative(PyIntVal(text))
                   THEN Raise(Err("negative_drones", "", text, "", ""))
                   ELSE NextLine
    /\ UNCHANGED <<parsed_lines, zones, raw_connections, seen_connections,
                   connections>>
    /\ UNCHANGED md_vars
    /\ UNCHANGED render_vars

\* the first group of the hub pattern: the keyword without its colon
HubType(head) ==
    CASE head = "start_hub:" -> "start_hub"
      [] head = "end_hub:" -> "end_hub"
      [] head = "hub:" -> "hub"

\* the dict that the hub branch passes to update
ZoneFields(line, meta) ==
    [hub_type |-> HubType(line.head),
     coordinates |-> <<PyIntVal(line.x), PyIntVal(line.y)>>,
     metadata |-> meta]

\* as StoreZone, but setdefault: a name already present keeps its entry
StoreZoneKeepFirst(zs, name, fields) ==
    IF name \in DOMAIN zs THEN zs ELSE DictSet(zs, name, fields)

\* self.zones[name].update({...}) once the metadata is parsed
StoreZone(zs, name, fields) ==
    LET got == DefaultDictGet(zs, name)
    IN  DictSet(got, name, DictUpdate(got[name], fields))

\* the hub branch
HubLine ==
    /\ InLoop
    /\ ~IsSkipped(CurrentLine)
    /\ ~IsDrones(CurrentLine)
    /\ MatchesHub(CurrentLine)
    /\ LET line == CurrentLine
           res == _parse_metadata(line.meta, FALSE)
       IN  IF res.ok
           THEN /\ zones' = StoreZone(zones, line.name, ZoneFields(line, res.meta))
                /\ NextLine
           ELSE \* self.zones[name] was evaluated before the arguments
                /\ zones' = DefaultDictGet(zones, line.name)
                /\ Raise(res.err)
    /\ UNCHANGED <<parsed_lines, raw_connections, seen_connections,
                   connections, number_of_drones>>
    /\ UNCHANGED md_vars
    /\ UNCHANGED render_vars

\* as PairKey, but an ordered tuple: "b-a" no longer collides with "a-b"
PairKeyOrdered(hub_one, hub_two) == <<hub_one, hub_two>>

\* frozenset({hub_one, hub_two})
PairKey(hub_one, hub_two) == {hub_one, hub_two}

\* as ConnectionCheck, but without the self-connection test
ConnectionCheckNoSelf(hub_one, hub_two, seen) ==
    IF PairKey(hub_one, hub_two) \in seen
    THEN Err("duplicate_connection", "", <<>>, hub_one, hub_two)
    ELSE NoError

\* the two checks of the connection branch, in the code's order
ConnectionCheck(hub_one, hub_two, seen) ==
    IF hub_one = hub_two
    THEN Err("self_connection", "", <<>>, hub_one, hub_two)
    ELSE IF PairKey(hub_one, hub_two) \in seen
    THEN Err("duplicate_connection", "", <<>>, hub_one, hub_two)
    ELSE NoError

\* the connection branch
ConnectionLine ==
    /\ InLoop
    /\ ~IsSkipped(CurrentLine)
    /\ ~IsDrones(CurrentLine)
    /\ ~MatchesHub(CurrentLine)
    /\ MatchesConnection(CurrentLine)
    /\ LET hub_one == CurrentLine.name
           hub_two == CurrentLine.name2
           check == ConnectionCheck(hub_one, hub_two, seen_connections)
           res == _parse_metadata(CurrentLine.meta, TRUE)
       IN  IF check # NoError
           THEN /\ Raise(check)
                /\ UNCHANGED <<seen_connections, raw_connections>>
           ELSE /\ seen_connections' =
                       seen_connections \cup {PairKey(hub_one, hub_two)}
                /\ IF res.ok
                   THEN /\ raw_connections' =
                               Append(raw_connections,
                                      [pair |-> <<hub_one, hub_two>>,
                                       meta |-> res.meta])
                        /\ NextLine
                   ELSE /\ raw_connections' = raw_connections
                        /\ Raise(res.err)
    /\ UNCHANGED <<parsed_lines, zones, connections, number_of_drones>>
    /\ UNCHANGED md_vars
    /\ UNCHANGED render_vars

\* a line no branch takes
IgnoredLine ==
    /\ InLoop
    /\ ~IsSkipped(CurrentLine)
    /\ ~IsDrones(CurrentLine)
    /\ ~MatchesHub(CurrentLine)
    /\ ~MatchesConnection(CurrentLine)
    /\ NextLine
    /\ UNCHANGED <<parsed_lines, zones, raw_connections, seen_connections,
                   connections, number_of_drones>>
    /\ UNCHANGED md_vars
    /\ UNCHANGED render_vars

\* after the loop: "if self.raw_connections: self.parse_connections()"
FinishParseInput ==
    /\ pc = "parsing"
    /\ idx = Len(parsed_lines) + 1
    /\ connections' = IF raw_connections # <<>>
                      THEN parse_connections(connections, raw_connections)
                      ELSE connections
    /\ pc' = "returned"
    /\ UNCHANGED <<parsed_lines, idx, zones, raw_connections, seen_connections,
                   number_of_drones, error>>
    /\ UNCHANGED md_vars
    /\ UNCHANGED render_vars

Next ==
    \/ ParseLines
    \/ ParseLinesNotFound
    \/ BeginParseInput
    \/ SkipLine
    \/ DronesLine
    \/ HubLine
    \/ ConnectionLine
    \/ IgnoredLine
    \/ FinishParseInput

Spec == Init /\ [][Next]_vars

(***************************************************************************)
(* _parse_metadata on its own: the fragments and the calls.                *)
(***************************************************************************)
MetadataTokens ==
    { Tok("max_drones", <<"2">>), Tok("max_drones", <<"0">>),
      Tok("max_drones", <<"-", "1">>), Tok("max_drones", <<"x">>),
      Tok("max_link_capacity", <<"2">>), Tok("max_link_capacity", <<"0">>),
      Tok("max_link_capacity", <<"x">>),
      Tok("color", <<"r">>), Tok("zone", Blocked), Tok("zone", <<"x">>),
      Tok("speed", <<"2">>), Tok("rate", <<"x">>),
      [parts |-> 1, key |-> "max_drones", value |-> <<>>],
      [parts |-> 3, key |-> "color", value |-> <<"r">>] }

Fragments == SeqsUpTo(MetadataTokens, MaxTokens)

\* one call of the static method, on a fragment and a context
ParseMetadataCall ==
    /\ pc = "new"
    /\ md_out = NoResult
    /\ \E frag \in Fragments, is_connection \in BOOLEAN :
          /\ md_in' = frag
          /\ md_conn' = is_connection
          /\ md_out' = _parse_metadata(frag, is_connection)
    /\ UNCHANGED parser_vars
    /\ UNCHANGED render_vars

NextMeta == ParseMetadataCall

SpecMeta == Init /\ [][NextMeta]_vars

(***************************************************************************)
(* src/render.py: InformationManager.parse_input, which accepts or rejects *)
(* what the parser produced, and one pass of Renderer._render_bridges over *)
(* the accepted zones and connections.                                     *)
(***************************************************************************)
\* "if not my_parser.get_zones or not my_parser.connections"
NothingProvided(zs, conns) == DOMAIN zs = {} \/ DOMAIN conns = {}

\* the parse is accepted: _zones and _connections are set
ManagerAccept ==
    /\ pc = "returned"
    /\ rpc = "idle"
    /\ ~NothingProvided(zones, connections)
    /\ rpc' = "accepted"
    /\ im_zones' = zones
    /\ im_connections' = connections
    /\ UNCHANGED <<drawn_bridges, render_error>>
    /\ UNCHANGED parser_vars
    /\ UNCHANGED md_vars

\* "No zones or connections provided", or the parser's own error:
\* the except clause prints it and exits
ManagerExit ==
    /\ rpc = "idle"
    /\ \/ pc \in {"failed", "read_failed"}
       \/ pc = "returned" /\ NothingProvided(zones, connections)
    /\ rpc' = "exited"
    /\ UNCHANGED <<im_zones, im_connections, drawn_bridges, render_error>>
    /\ UNCHANGED parser_vars
    /\ UNCHANGED md_vars

\* the order "for name, zone in zones.items()" visits the zones in: the
\* order of insertion, which is the order of the names' first hub lines
RECURSIVE ZoneInsertionOrder(_)
ZoneInsertionOrder(lines) ==
    IF lines = <<>> THEN <<>>
    ELSE LET init == ZoneInsertionOrder(SubSeq(lines, 1, Len(lines) - 1))
             line == lines[Len(lines)]
         IN  IF /\ ~IsSkipped(line) /\ ~IsDrones(line) /\ MatchesHub(line)
                /\ \A k \in 1..Len(init) : init[k] # line.name
             THEN Append(init, line.name)
             ELSE init

\* zone.get("metadata", {}).zone == "blocked"
IsBlocked(zone) == zone.metadata.zone = Blocked

\* the neighbors of name that "if neighbor not in zones" raises on; the set
\* is iterated in no fixed order, so any of them may be the one named
MissingNeighbors(name, zs, conns) ==
    {nb \in conns[name].connections : nb \notin DOMAIN zs}

\* the pairs the inner loop adds to drawn_bridges for one zone;
\* sorted([name, neighbor]) is modelled as the unordered pair
BridgesOf(name, zs, conns) ==
    {{name, nb} : nb \in {n \in conns[name].connections : ~IsBlocked(zs[n])}}

\* the loop over the zones from position k on: how the pass ends, the names
\* the exception may carry, and drawn_bridges at the end of a whole pass
RECURSIVE RenderFrom(_, _, _, _, _)
RenderFrom(order, k, zs, conns, drawn) ==
    IF k > Len(order)
    THEN [kind |-> "none", names |-> {""}, drawn |-> drawn]
    ELSE LET name == order[k]
         IN  IF IsBlocked(zs[name])
             THEN RenderFrom(order, k + 1, zs, conns, drawn)
             ELSE IF name \notin DOMAIN conns
             THEN \* connections[name]: KeyError
                  [kind |-> "KeyError", names |-> {name}, drawn |-> {}]
             ELSE IF MissingNeighbors(name, zs, conns) # {}
             THEN [kind |-> "RenderError",
                   names |-> MissingNeighbors(name, zs, conns), drawn |-> {}]
             ELSE RenderFrom(order, k + 1, zs, conns,
                             drawn \cup BridgesOf(name, zs, conns))

_render_bridges(order, zs, conns) == RenderFrom(order, 1, zs, conns, {})

\* one pass of _render_bridges inside Renderer.run: it completes, or raises
\* RenderError (caught by run: message and exit), or raises KeyError, which
\* run has no handler for
RenderBridges ==
    /\ rpc = "accepted"
    /\ LET res == _render_bridges(ZoneInsertionOrder(parsed_lines),
                                  im_zones, im_connections)
       IN  /\ rpc' = CASE res.kind = "none" -> "completed"
                      [] res.kind = "RenderError" -> "render_error"
                      [] res.kind = "KeyError" -> "crashed"
           /\ drawn_bridges' = res.drawn
           /\ \E n \in res.names :
                 render_error' = [kind |-> res.kind, name |-> n]
    /\ UNCHANGED <<im_zones, im_connections>>
    /\ UNCHANGED parser_vars
    /\ UNCHANGED md_vars

NextRender ==
    \/ ParseLines
    \/ ParseLinesNotFound
    \/ BeginParseInput
    \/ SkipLine
    \/ DronesLine
    \/ HubLine
    \/ ConnectionLine
    \/ IgnoredLine
    \/ FinishParseInput
    \/ ManagerAccept
    \/ ManagerExit
    \/ RenderBridges

SpecRender == Init /\ [][NextRender]_vars

(***************************************************************************)
(* Properties.                                                             *)
(***************************************************************************)
\* the lines the loop has taken as hub, connection and nb_drones lines
IsHubDecl(line) == ~IsSkipped(line) /\ ~IsDrones(line) /\ MatchesHub(line)

IsConnDecl(line) ==
    /\ ~IsSkipped(line) /\ ~IsDrones(line) /\ ~MatchesHub(line)
    /\ MatchesConnection(line)

IsDronesDecl(line) == ~IsSkipped(line) /\ IsDrones(line)

Finished == pc \in {"returned", "failed"}

\* every nb_drones line of the input carries an integer
DronesLinesCarryInt(lines) ==
    \A k \in 1..Len(lines) :
        IsDronesDecl(lines[k]) => PyIntOk(Strip(lines[k].num))

\* C1: after a parse_input run that succeeds the adjacency mapping is
\* symmetric: every neighbor B of A has an entry in which A is a neighbor,
\* both entries carry metadata for the other, and the two metadata are equal.
C1_SymmetricAdjacency ==
    pc = "returned" =>
        \A A \in DOMAIN connections :
            /\ DOMAIN connections[A].metadata = connections[A].connections
            /\ \A B \in connections[A].connections :
                  /\ B \in DOMAIN connections
                  /\ A \in connections[B].connections
                  /\ A \in DOMAIN connections[B].metadata
                  /\ connections[A].metadata[B] = connections[B].metadata[A]

\* a successful parse in which b has two neighbors with different metadata
C1_Witness ==
    /\ pc = "returned"
    /\ "b" \in DOMAIN connections
    /\ connections["b"].connections = {"a", "A"}
    /\ connections["b"].metadata["a"] # connections["b"].metadata["A"]
    /\ connections["a"].metadata["b"].max_link_capacity = DefaultMaxLinkCapacity

\* two connection lines at positions i < j that name the same unordered pair
\* of distinct names
SamePair(l1, l2) ==
    \/ l1.name = l2.name /\ l1.name2 = l2.name2
    \/ l1.name = l2.name2 /\ l1.name2 = l2.name

RepeatsAt(lines, j) ==
    /\ IsConnDecl(lines[j])
    /\ lines[j].name # lines[j].name2
    /\ \E i \in 1..(j - 1) : IsConnDecl(lines[i]) /\ SamePair(lines[i], lines[j])

HasRepeatedPair(lines) == \E j \in 1..Len(lines) : RepeatsAt(lines, j)

\* the position of the first line that repeats an earlier pair, 0 when none
FirstRepeat(lines) ==
    IF HasRepeatedPair(lines)
    THEN CHOOSE j \in 1..Len(lines) :
            RepeatsAt(lines, j) /\ \A k \in 1..(j - 1) : ~RepeatsAt(lines, k)
    ELSE 0

\* C2 as stated: whenever two connection lines name the same unordered pair,
\* parse_input ends with the duplicate-connection error.  (Stated for the
\* inputs whose nb_drones lines all carry an integer, so that what refutes
\* it is a validation failure the specification lists.)
C2_AlwaysDuplicateError ==
    (Finished /\ HasRepeatedPair(parsed_lines)
              /\ DronesLinesCarryInt(parsed_lines)) =>
        (pc = "failed" /\ error.kind = "duplicate_connection")

\* C2 amended: with a repeated unordered pair of distinct names parse_input
\* never returns; it fails at or before the first repeating line, and the
\* error is the duplicate-connection error (naming that line's endpoints)
\* exactly when the failure is at that line; an earlier failing line gives
\* its own error.  Names that differ only in case are different names.
C2_RepeatedPairFails ==
    /\ HasRepeatedPair(parsed_lines) => pc # "returned"
    /\ pc = "failed" =>
          /\ HasRepeatedPair(parsed_lines) => idx <= FirstRepeat(parsed_lines)
          /\ error.kind = "duplicate_connection"
                <=> idx = FirstRepeat(parsed_lines)
          /\ error.kind = "duplicate_connection" =>
                /\ error.a = parsed_lines[idx].name
                /\ error.b = parsed_lines[idx].name2

\* "x-y" then "y-x": the duplicate error is raised at the reversed line
C2_Witness ==
    /\ pc = "failed"
    /\ error.kind = "duplicate_connection"
    /\ idx = FirstRepeat(parsed_lines)
    /\ \E i \in 1..(idx - 1) :
          /\ IsConnDecl(parsed_lines[i])
          /\ parsed_lines[i].name = parsed_lines[idx].name2
          /\ parsed_lines[i].name2 = parsed_lines[idx].name

IsSelfLine(line) == IsConnDecl(line) /\ line.name = line.name2

HasSelfLine(lines) == \E j \in 1..Len(lines) : IsSelfLine(lines[j])

FirstSelf(lines) ==
    IF HasSelfLine(lines)
    THEN CHOOSE j \in 1..Len(lines) :
            IsSelfLine(lines[j]) /\ \A k \in 1..(j - 1) : ~IsSelfLine(lines[k])
    ELSE 0

NoSelfNeighbor ==
    \A n \in DOMAIN connections : n \notin connections[n].connections

\* C3 as stated: whenever a connection line has two equal endpoint names,
\* parse_input ends with the self-connection error, and no adjacency entry
\* has its own name as a neighbor.  (Stated for the inputs whose nb_drones
\* lines all carry an integer.)
C3_AlwaysSelfError ==
    /\ (Finished /\ HasSelfLine(parsed_lines)
                 /\ DronesLinesCarryInt(parsed_lines)) =>
          (pc = "failed" /\ error.kind = "self_connection")
    /\ NoSelfNeighbor

\* C3 amended: with a connection line whose endpoints are equal parse_input
\* never returns; it fails at or before the first such line, and the error
\* is the self-connection error (naming the zone) exactly when the failure
\* is at that line, also when the same line occurs again later; an earlier
\* failing line gives its own error.  No adjacency entry ever has its own
\* name as a neighbor.
C3_SelfConnectionFails ==
    /\ HasSelfLine(parsed_lines) => pc # "returned"
    /\ pc = "failed" =>
          /\ HasSelfLine(parsed_lines) => idx <= FirstSelf(parsed_lines)
          /\ error.kind = "self_connection" <=> idx = FirstSelf(parsed_lines)
          /\ error.kind = "self_connection" =>
                /\ error.a = parsed_lines[idx].name
                /\ error.b = parsed_lines[idx].name
    /\ NoSelfNeighbor

\* a repeated "a-a" line, after an accepted connection: the first "a-a"
\* is reported as a self-connection
C3_Witness ==
    /\ pc = "failed"
    /\ error.kind = "self_connection"
    /\ raw_connections # <<>>
    /\ \E j \in (idx + 1)..Len(parsed_lines) :
          parsed_lines[j] = parsed_lines[idx]

\* the hub declarations among the first k lines
DeclaredNames(lines, k) ==
    {lines[i].name : i \in {j \in 1..k : IsHubDecl(lines[j])}}

LastHubDecl(lines, n, k) ==
    CHOOSE i \in 1..k :
        /\ IsHubDecl(lines[i]) /\ lines[i].name = n
        /\ \A j \in (i + 1)..k : ~(IsHubDecl(lines[j]) /\ lines[j].name = n)

\* the zone entry one hub line declares
DeclaredZone(line) == ZoneFields(line, _parse_metadata(line.meta, FALSE).meta)

\* the value of the last nb_drones line among the first k lines that
\* carries an integer, 0 when there is none
IsDronesValue(line) == IsDronesDecl(line) /\ PyIntOk(Strip(line.num))

LastDronesValue(lines, k) ==
    IF \E i \in 1..k : IsDronesValue(lines[i])
    THEN LET last == CHOOSE i \in 1..k :
                        /\ IsDronesValue(lines[i])
                        /\ \A j \in (i + 1)..k : ~IsDronesValue(lines[j])
         IN  PyIntVal(Strip(lines[last].num))
    ELSE 0

\* C4 as stated: when parse_input fails, zones, connections and
\* number_of_drones hold nothing taken from the lines before the failing
\* line (only what the failing line itself left: an empty entry for its
\* hub name, its rejected drone count).  (Stated for the inputs whose
\* nb_drones lines all carry an integer.)
C4_NothingLeftBehind ==
    (pc = "failed" /\ DronesLinesCarryInt(parsed_lines)) =>
        /\ connections = EmptyDict
        /\ \A n \in DOMAIN zones : zones[n] = EmptyDict
        /\ \/ number_of_drones = 0
           \/ /\ IsDronesDecl(parsed_lines[idx])
              /\ number_of_drones = PyIntVal(Strip(parsed_lines[idx].num))

\* C4 amended: when parse_input fails at a line it raises that line's error
\* and returns nothing, and connections is as before the call (empty); but
\* zones and number_of_drones are not rolled back: zones holds the last
\* declaration of every name declared before the failing line (and an empty
\* entry for the name of a failing hub line not declared before), and
\* number_of_drones holds the last drone count read, the rejected negative
\* one included.
C4_FailureKeepsPrefix ==
    pc = "failed" =>
        /\ error # NoError
        /\ idx \in 1..Len(parsed_lines)
        /\ connections = EmptyDict
        /\ \A n \in DeclaredNames(parsed_lines, idx - 1) :
              /\ n \in DOMAIN zones
              /\ zones[n] =
                    DeclaredZone(parsed_lines[LastHubDecl(parsed_lines, n, idx - 1)])
        /\ \A n \in DOMAIN zones \ DeclaredNames(parsed_lines, idx - 1) :
              /\ IsHubDecl(parsed_lines[idx])
              /\ n = parsed_lines[idx].name
              /\ zones[n] = EmptyDict
        /\ IsHubDecl(parsed_lines[idx]) => parsed_lines[idx].name \in DOMAIN zones
        /\ number_of_drones = LastDronesValue(parsed_lines, idx)

\* a failed parse that leaves a declared zone and a drone count behind
C4_Witness ==
    /\ pc = "failed"
    /\ idx = 3
    /\ number_of_drones > 0
    /\ \E n \in DOMAIN zones : zones[n] # EmptyDict
    /\ DronesLinesCarryInt(parsed_lines)

NegativeDronesAt(lines, k) ==
    IsDronesValue(lines[k]) /\ PyIntVal(Strip(lines[k].num)) < 0

\* an nb_drones line with a negative value makes parse_input fail
NegativeDronesFail ==
    \A k \in 1..Len(parsed_lines) :
        NegativeDronesAt(parsed_lines, k) =>
            /\ pc # "returned"
            /\ pc = "parsing" => idx <= k
            /\ pc = "failed" =>
                  /\ idx <= k
                  /\ idx = k => error.kind = "negative_drones"

\* of several nb_drones lines the last one processed is the one kept
LastDronesWins ==
    pc \in {"parsing", "returned"} =>
        number_of_drones = LastDronesValue(parsed_lines, idx - 1)

\* C5 as stated: number_of_drones >= 0 in every state of the parser, a
\* negative nb_drones value makes parse_input fail, and the last declared
\* value is kept.
C5_NeverNegative ==
    /\ number_of_drones >= 0
    /\ NegativeDronesFail
    /\ LastDronesWins

\* C5 amended: number_of_drones >= 0 before parse_input, after every line
\* processed without error and after parse_input returns; a negative
\* nb_drones value makes parse_input fail, and that failure leaves the
\* rejected negative value in number_of_drones (the only way it is
\* negative); the last declared value is the one kept.
C5_NegativeOnlyAfterRejection ==
    /\ pc # "failed" => number_of_drones >= 0
    /\ pc = "failed" =>
          /\ number_of_drones < 0 <=> error.kind = "negative_drones"
          /\ number_of_drones < 0 =>
                number_of_drones = PyIntVal(Strip(parsed_lines[idx].num))
    /\ NegativeDronesFail
    /\ LastDronesWins

\* two accepted drone counts, the second one kept, then a negative one
\* rejected and left in the field
C5_Witness ==
    /\ pc = "failed"
    /\ error.kind = "negative_drones"
    /\ number_of_drones < 0
    /\ idx = 3
    /\ IsDronesValue(parsed_lines[1])
    /\ IsDronesValue(parsed_lines[2])
    /\ parsed_lines[1] # parsed_lines[2]

\* the lines C6 calls ignored: blank, "#", or matching none of the directive
\* patterns nb_drones: <int>, (start_hub|end_hub|hub): <name> <x> <y>,
\* connection: <A>-<B>
MatchesADirective(line) ==
    \/ line.head = "nb_drones:" /\ PyIntOk(Strip(line.num))
    \/ MatchesHub(line)
    \/ MatchesConnection(line)

Ignorable(line) == IsSkipped(line) \/ ~MatchesADirective(line)

\* C6: a line that is blank, begins with "#" or matches no directive
\* pattern (an nb_drones: line without an integer included) raises no error
\* and leaves zones, the raw connections and number_of_drones unchanged.
C6_IgnoredLinesChangeNothing ==
    [][(InLoop /\ Ignorable(CurrentLine)) =>
          /\ pc' = "parsing"
          /\ error' = error
          /\ zones' = zones
          /\ raw_connections' = raw_connections
          /\ number_of_drones' = number_of_drones]_vars

(***************************************************************************)
(* Properties of _parse_metadata (under SpecMeta).                         *)
(***************************************************************************)
WellFormed(frag) == \A k \in 1..Len(frag) : frag[k].parts = 2

PositiveIntKeyOf(is_connection) ==
    IF is_connection THEN "max_link_capacity" ELSE "max_drones"

AllowedSetOf(is_connection) ==
    IF is_connection THEN {"max_link_capacity"}
    ELSE {"zone", "color", "max_drones"}

\* zero, negative or non-numeric
InvalidPositive(value) == ~PyIntOk(value) \/ PyIntVal(value) <= 0

Occurs(frag, key) == \E k \in 1..Len(frag) : frag[k].key = key

FirstIndex(frag, key) ==
    CHOOSE k \in 1..Len(frag) :
        frag[k].key = key /\ \A j \in 1..(k - 1) : frag[j].key # key

LastValue(frag, key) ==
    LET last == CHOOSE k \in 1..Len(frag) :
                    frag[k].key = key /\ \A j \in (k + 1)..Len(frag) : frag[j].key # key
    IN  frag[last].value

\* the key is one the loop rejects, given the value its last token gives it
KeyRejected(frag, key, is_connection) ==
    \/ key \notin AllowedSetOf(is_connection)
    \/ key = PositiveIntKeyOf(is_connection) /\ InvalidPositive(LastValue(frag, key))
    \/ key = "zone" /\ LastValue(frag, key) \notin ZoneTypes

\* no key that first occurs before `key` is rejected
EarlierKeysPass(frag, key, is_connection) ==
    \A j \in 1..(FirstIndex(frag, key) - 1) :
        ~KeyRejected(frag, frag[j].key, is_connection)

StoredPositive ==
    md_out.ok =>
        IF md_conn THEN md_out.meta.max_link_capacity > 0
        ELSE md_out.meta.max_drones > 0

\* every key other than the positive-integer key is allowed and valid
OtherKeysPass(frag, is_connection) ==
    \A j \in 1..Len(frag) :
        frag[j].key # PositiveIntKeyOf(is_connection) =>
            ~KeyRejected(frag, frag[j].key, is_connection)

\* C7 as stated: a zero, negative or non-numeric value given to the
\* context's positive-integer key in any key=value token makes parsing fail
\* with the error naming that key and that value, a later valid token of the
\* same key notwithstanding; every stored max_drones / max_link_capacity
\* is > 0.  (Stated for the fragments in which every token is a key=value
\* pair and every other key is allowed and has a valid value.)
C7_AnyInvalidTokenFails ==
    /\ \A k \in 1..Len(md_in) :
          ( /\ WellFormed(md_in)
            /\ OtherKeysPass(md_in, md_conn)
            /\ md_in[k].key = PositiveIntKeyOf(md_conn)
            /\ InvalidPositive(md_in[k].value) ) =>
              /\ ~md_out.ok
              /\ md_out.err.kind = "must_be_integer"
              /\ md_out.err.key = md_in[k].key
              /\ md_out.err.text = md_in[k].value
    /\ StoredPositive

\* C7 amended: parsing fails whenever the LAST token of the context's
\* positive-integer key gives it a zero, negative or non-numeric value (an
\* invalid value in an earlier token of the key is overwritten and never
\* checked); the error names that key and that value when every token is a
\* key=value pair and no key that first occurs earlier in the fragment is
\* itself rejected, and it is raised for no other key or value; every
\* stored max_drones / max_link_capacity is > 0.
C7_LastInvalidValueFails ==
    LET key == PositiveIntKeyOf(md_conn)
    IN  /\ (Occurs(md_in, key) /\ InvalidPositive(LastValue(md_in, key))) =>
              /\ ~md_out.ok
              /\ (WellFormed(md_in) /\ EarlierKeysPass(md_in, key, md_conn)) =>
                    /\ md_out.err.kind = "must_be_integer"
                    /\ md_out.err.key = key
                    /\ md_out.err.text = LastValue(md_in, key)
        /\ md_out.err.kind = "must_be_integer" =>
              /\ md_out.err.key = key
              /\ md_out.err.text = LastValue(md_in, key)
              /\ InvalidPositive(md_out.err.text)
        /\ StoredPositive

\* max_drones given a valid value and then an invalid one: the error names
\* max_drones and the later value
C7_Witness ==
    /\ ~md_conn
    /\ Len(md_in) = 2
    /\ md_in[1] = Tok("max_drones", <<"2">>)
    /\ md_in[2] = Tok("max_drones", <<"-", "1">>)
    /\ ~md_out.ok
    /\ md_out.err.kind = "must_be_integer"
    /\ md_out.err.text = <<"-", "1">>

UnknownAt(frag, k, is_connection) ==
    frag[k].parts = 2 /\ frag[k].key \notin AllowedSetOf(is_connection)

HasUnknownKey(frag, is_connection) ==
    \E k \in 1..Len(frag) : UnknownAt(frag, k, is_connection)

FirstUnknownKey(frag, is_connection) ==
    LET first == CHOOSE k \in 1..Len(frag) :
                    /\ UnknownAt(frag, k, is_connection)
                    /\ \A j \in 1..(k - 1) : ~UnknownAt(frag, j, is_connection)
    IN  frag[first].key

\* C8 as stated: a fragment with a key outside the context's allowed set
\* fails with the unknown-key error naming an offending key of the
\* fragment, whatever its other tokens are.  (Stated for the fragments
\* whose tokens are all key=value pairs.)
C8_UnknownKeyAlwaysNamed ==
    (WellFormed(md_in) /\ HasUnknownKey(md_in, md_conn)) =>
        /\ ~md_out.ok
        /\ md_out.err.kind = "invalid_key"
        /\ md_out.err.key \notin AllowedSetOf(md_conn)
        /\ Occurs(md_in, md_out.err.key)

\* C8 amended: a fragment with a key outside the context's allowed set
\* always fails; the error is the unknown-key error, naming the first such
\* key, exactly when every token is a key=value pair and no allowed key that
\* first occurs before it is rejected for its value; otherwise the error is
\* that earlier key's, or the one of the token that is no key=value pair.
C8_UnknownKeyFails ==
    /\ HasUnknownKey(md_in, md_conn) =>
          /\ ~md_out.ok
          /\ md_out.err.kind = "invalid_key" <=>
                /\ WellFormed(md_in)
                /\ EarlierKeysPass(md_in, FirstUnknownKey(md_in, md_conn), md_conn)
          /\ md_out.err.kind = "invalid_key" =>
                md_out.err.key = FirstUnknownKey(md_in, md_conn)
          /\ ~WellFormed(md_in) => md_out.err.kind = "dict_update_length"
    /\ md_out.err.kind = "invalid_key" => HasUnknownKey(md_in, md_conn)

\* a valid token, the unknown key, then an invalid token: the unknown key
\* is the one named
C8_Witness ==
    /\ ~md_conn
    /\ Len(md_in) = 3
    /\ md_in[1] = Tok("color", <<"r">>)
    /\ md_in[2] = Tok("speed", <<"2">>)
    /\ md_in[3] = Tok("max_drones", <<"0">>)
    /\ md_out.err.kind = "invalid_key"
    /\ md_out.err.key = "speed"

(***************************************************************************)
(* Properties of the zone and connection registries (under Spec).          *)
(***************************************************************************)
\* C9: redeclaring a zone is no error and the last declaration wins: after
\* the lines processed so far (all of them once parse_input has returned)
\* zones has exactly one entry per declared name, and that entry has exactly
\* the hub_type, coordinates and metadata of the name's last declaration.
C9_LastDeclarationWins ==
    pc \in {"parsing", "returned"} =>
        /\ DOMAIN zones = DeclaredNames(parsed_lines, idx - 1)
        /\ \A n \in DOMAIN zones :
              /\ DOMAIN zones[n] = {"hub_type", "coordinates", "metadata"}
              /\ zones[n] =
                    DeclaredZone(parsed_lines[LastHubDecl(parsed_lines, n, idx - 1)])

\* a is declared as a coloured start_hub and then as a plain hub: the parse
\* succeeds and neither the colour nor max_drones=2 survives
C9_Witness ==
    /\ pc = "returned"
    /\ Len(parsed_lines) >= 2
    /\ IsHubDecl(parsed_lines[1]) /\ IsHubDecl(parsed_lines[2])
    /\ parsed_lines[1].name = "a" /\ parsed_lines[2].name = "a"
    /\ parsed_lines[1].head = "start_hub:" /\ parsed_lines[2].head = "hub:"
    /\ parsed_lines[2].meta = <<>>
    /\ DeclaredNames(parsed_lines, Len(parsed_lines)) = {"a"}
    /\ zones["a"].hub_type = "hub"
    /\ zones["a"].metadata.color = NoneValue
    /\ zones["a"].metadata.max_drones = DefaultMaxDrones

\* the endpoint names of the connection lines among the first k lines
Endpoints(lines, k) ==
    UNION {{lines[i].name, lines[i].name2} :
              i \in {j \in 1..k : IsConnDecl(lines[j])}}

\* C10: connections is empty in every state before parse_input returns and
\* after a failed parse; after a successful parse its keys are exactly the
\* endpoint names of the connection lines, declared as zones or not, and
\* every entry has a non-empty neighbor set.
C10_ConnectionsBuiltOnce ==
    /\ pc # "returned" => connections = EmptyDict
    /\ pc = "returned" =>
          /\ DOMAIN connections = Endpoints(parsed_lines, Len(parsed_lines))
          /\ \A n \in DOMAIN connections :
                /\ connections[n].connections # {}
                /\ connections[n].connections \subseteq DOMAIN connections

\* an undeclared endpoint has an entry, a declared zone without a
\* connection has none
C10_Witness ==
    /\ pc = "returned"
    /\ "A" \in DOMAIN connections /\ "A" \notin DOMAIN zones
    /\ "a" \in DOMAIN zones /\ "a" \notin DOMAIN connections
    /\ "b" \in DOMAIN connections /\ "b" \in DOMAIN zones

(***************************************************************************)
(* Properties of the renderer's bridge pass (under SpecRender).            *)
(***************************************************************************)
RenderEnded == rpc \in {"completed", "render_error", "crashed"}

\* C11: for every parse result that InformationManager.parse_input accepts,
\* a pass of _render_bridges completes or raises RenderError, the only error
\* Renderer.run handles; so does the pass over a result with a declared
\* non-blocked zone that has no entry in connections, and over one with a
\* neighbor name that is no declared zone.
C11_CompletesOrRenderError ==
    RenderEnded =>
        /\ rpc \in {"completed", "render_error"}
        /\ render_error.kind \in {"none", "RenderError"}

====
